---- MODULE Spec2Model ----
(***************************************************************************)
(* wg-quick for Android (src/wg-quick.c): the up/down orchestrator, its    *)
(* exit hook, the route-derived MTU computation, the network id loop, the  *)
(* DNS and address lists, and the loop of the config loader.               *)
(*                                                                         *)
(* Every external command is a blocking call, so one action is one         *)
(* external command together with the C code that runs up to the next      *)
(* command.  An invocation is a process; the kernel's link table and the   *)
(* policy daemon's networks are shared by all invocations.                 *)
(*                                                                         *)
(* Environment (not part of the repository):                               *)
(*  - any command may fail; a command succeeds only when the system state  *)
(*    allows it (a link is added only if the name is free, ...);           *)
(*  - system() returns the wait status of the shell, n * 256 for a command *)
(*    that exits with code n; the status a process leaves is the value     *)
(*    passed to exit() modulo 256;                                         *)
(*  - the policy daemon refuses `network create` for an id it holds, and   *)
(*    `network interface add` for an id it does not hold;                  *)
(*  - the policy daemon keeps a network until `network destroy`; the       *)
(*    policy rule "fwmark 0xc<netid>/0xcffff lookup <iface>" exists from   *)
(*    `network interface add` until the network is destroyed;              *)
(*  - `wg show <iface> endpoints` prints "<public-key>\t<endpoint>\n" per  *)
(*    peer, the endpoint being "(none)" when the peer has none;            *)
(*  - popen() hands the command to the shell, which splits it into words   *)
(*    at blanks outside single quotes.                                     *)
(***************************************************************************)
EXTENDS Integers, Sequences, FiniteSets, TLC

VARIABLES
    proc,       \* per invocation: position, descriptor, globals of the C file
    links,      \* names of the interfaces that exist (all of type wireguard)
    networks,   \* network ids the policy daemon holds
    rules,      \* `ip rule show`, in order: [fwmark, table]
    call        \* a single call of set_mtu on drawn inputs (SpecMtu)

vars == <<proc, links, networks, rules, call>>
env == <<links, networks, rules>>

(***************************************************************************)
(* Bounds of the model.                                                    *)
(***************************************************************************)
MaxAddrs == 1
MaxDns == 1
MaxRoutes == 1
MaxPeers == 1

(***************************************************************************)
(* Program constants.                                                      *)
(***************************************************************************)
EXISTS_STATUS == 92
NOT_WG_STATUS == 43
NDC_STATUS == 29
MIN_NETID == 4096
DEFAULT_MTU == 1500
MTU_OVERHEAD == 80
DEFAULT_MASK == 32
FWMARK_BASE == 786432       \* 0xc0000

Procs == {"p1", "p2"}
NULL == <<>>

\* Interface names, as character sequences (the rule regex is unanchored).
IfaceNames == {<<"w", "g", "0">>, <<"w", "g", "0", "1">>}

\* Exit codes the environment lets a command end with.
ExitCodes == {0, 1}

\* The wait status system() returns for a command that exited with code n.
W_EXITCODE(n) == n * 256

\* The status a process leaves after exit(arg).
ProcessStatus(arg) == arg % 256

HasChar(s, c) == \E i \in 1..Len(s) : s[i] = c

\* Mutant of Unsafe: only the single quote is looked for.
UnsafeQuoteOnly(tok) == HasChar(tok, "'")

\* strchr(x, '\'') || strchr(x, '\\')
Unsafe(tok) == HasChar(tok, "'") \/ HasChar(tok, "\\")

SeqsUpTo(S, n) == UNION {[1..k -> S] : k \in 0..n}

AddrTokens == {<<"a", "/", "8">>, <<"f", ":", "1">>}
DnsTokens == {<<"1">>}
RouteTokens == {<<"0", "/", "0">>}
MtuOverrides == {0, 1280}
RandomDraws == {0, 4095, 4097, 8193}

\* Mutant of MaskDraw: the mask keeps the lowest bit (0xffff).
MaskDrawAllBits(r) == r % 65536

\* random() & 0xfffe
MaskDraw(r) == (r % 65536) - (r % 2)

\* up_if: the loop keeps drawing while the candidate is below 4096.
AllocNetIds == {MaskDraw(r) : r \in {d \in RandomDraws : MaskDraw(d) >= MIN_NETID}}

(***************************************************************************)
(* Hexadecimal text of the fwmark in `ip rule show`, and strtoul(.., 16).  *)
(***************************************************************************)
RECURSIVE ToHex(_)
ToHex(n) == IF n < 16 THEN <<n>> ELSE Append(ToHex(n \div 16), n % 16)

RECURSIVE FromHex(_)
FromHex(ds) == IF ds = <<>> THEN 0
               ELSE 16 * FromHex(SubSeq(ds, 1, Len(ds) - 1)) + ds[Len(ds)]

IsPrefix(a, b) == Len(a) <= Len(b) /\ SubSeq(b, 1, Len(a)) = a

\* regexec of "0xc([0-9a-f]+)/0xcffff lookup <iface>" on one rule line:
\* the text after "0x" must be "c" and at least one more digit, and the
\* table name must begin with iface (nothing anchors the end).
RuleMatches(iface, rule) ==
    LET hex == ToHex(rule.fwmark)
    IN  /\ Len(hex) >= 2
        /\ hex[1] = 12
        /\ IsPrefix(iface, rule.table)

\* &ret[matches[1].rm_so] up to rm_eo, through strtoul(netid, NULL, 16).
RuleNetid(rule) == FromHex(Tail(ToHex(rule.fwmark)))

\* del_if's loop over the lines: the first line that matches, or NULL.
RECURSIVE FirstMatch(_, _)
FirstMatch(iface, lines) ==
    IF lines = <<>> THEN NULL
    ELSE IF RuleMatches(iface, Head(lines)) THEN <<RuleNetid(Head(lines))>>
    ELSE FirstMatch(iface, Tail(lines))

(***************************************************************************)
(* The process record.                                                     *)
(***************************************************************************)
Idle ==
    [pc |-> "idle", op |-> "none", iface |-> NULL, mtu |-> 0,
     addrs |-> <<>>, dnses |-> <<>>, netid |-> 0,
     is_exiting |-> FALSE, cleanup_iface |-> NULL, atexit |-> FALSE,
     exit_arg |-> 0, exit_calls |-> 0, status |-> -1,
     reexit_arg |-> 0, addr_i |-> 0, routes |-> <<>>, del_netid |-> NULL,
     log |-> <<>>]

\* The line "[#] cmd" of every command issued, with how it ended.
Logged(r, c, a, ok, ret) ==
    [r EXCEPT !.log = Append(@, [cmd |-> c, arg |-> a, ok |-> ok, ret |-> ret,
                                 hook |-> r.is_exiting])]

\* The process is gone; its status is the first exit()'s argument mod 256.
Terminated(r) == [r EXCEPT !.pc = "done", !.status = ProcessStatus(r.exit_arg)]

\* Mutant of cmd_up_cleanup: the hook sets the flag and frees the intent
\* without calling del_if.
cmd_up_cleanup_no_del_if(r) == Terminated([r EXCEPT !.is_exiting = TRUE])

\* cmd_up_cleanup, up to its first external command.
cmd_up_cleanup(r) ==
    LET r1 == [r EXCEPT !.is_exiting = TRUE]
    IN  IF r1.cleanup_iface # NULL THEN [r1 EXCEPT !.pc = "del_if"]
        ELSE Terminated(r1)

\* exit(code): runs the atexit handler if one is registered.  A call made
\* while the handler runs is a second call of exit(): undefined behaviour,
\* resolved by ExitReentered.
exit(r, code) ==
    IF r.exit_calls > 0
    THEN [r EXCEPT !.pc = "exit_reentered", !.exit_calls = @ + 1,
                   !.reexit_arg = code]
    ELSE LET r1 == [r EXCEPT !.exit_arg = code, !.exit_calls = 1]
         IN  IF r1.atexit THEN cmd_up_cleanup(r1) ELSE Terminated(r1)

\* cmd(): r is the record after the command was logged, ret what system()
\* returned, next the record to continue with.
cmd(r, ret, next) == IF ret # 0 /\ ~r.is_exiting THEN exit(r, ret) ELSE next

\* Mutant of cndc: the answer is not looked at.
cndc_reply_ignored(r, reply, next) == next

\* cndc(): reply is whether the first line of the answer holds "200 0".
cndc(r, reply, next) == IF ~reply THEN exit(r, NDC_STATUS) ELSE next

Set(p, r) == proc' = [proc EXCEPT ![p] = r]

(***************************************************************************)
(* RouteMtuResolver: get_route_mtu and set_mtu.                            *)
(***************************************************************************)
RouteMtus == {1400, 1500}

\* What the routing table answers for one destination: no route line; a
\* line that carries "mtu <m>"; a line with only "dev <d>", whose link line
\* is missing or carries "mtu <m>".
RouteAnswers ==
    {[route |-> "none", link |-> "none", mtu |-> 0],
     [route |-> "dev", link |-> "none", mtu |-> 0]}
    \cup {[route |-> "mtu", link |-> "none", mtu |-> m] : m \in RouteMtus}
    \cup {[route |-> "dev", link |-> "mtu", mtu |-> m] : m \in RouteMtus}

\* get_route_mtu: atoi of the matched digits, or -1.
get_route_mtu(a) ==
    IF a.route = "none" THEN -1
    ELSE IF a.route = "mtu" THEN a.mtu
    ELSE IF a.route = "dev" THEN (IF a.link = "mtu" THEN a.mtu ELSE -1)
    ELSE -1

\* The commands get_route_mtu runs for one destination.
get_route_cmds(dest, a) ==
    <<IF dest = "default" THEN "ip -o route show" ELSE "ip -o route get">>
    \o (IF a.route = "dev" THEN <<"ip -o link show dev">> ELSE <<>>)

\* The lines of `wg show <iface> endpoints` as getline returns them:
\* the public key and a tab, the endpoint or "(none)", the newline.
\* route is what the routing table answers for that endpoint.
EndpointLines ==
    {[key |-> TRUE, nl |-> TRUE, ep |-> "none", route |-> a] :
        a \in {[route |-> "none", link |-> "none", mtu |-> 0]}}
    \cup {[key |-> TRUE, nl |-> TRUE, ep |-> "addr", route |-> a] :
        a \in RouteAnswers}

EndpointOutputs == SeqsUpTo(EndpointLines, MaxPeers)

\* regexec of "^\[?([a-z0-9:.]+)\]?:[0-9]+$" (REG_EXTENDED, no REG_NEWLINE)
\* on the whole line: "^" is the start of the string and "$" its end, so a
\* key-and-tab before the endpoint or a newline after it prevents a match.
EndpointMatches(l) == ~l.key /\ ~l.nl /\ l.ep = "addr"

\* a < b on the unsigned int values of two ints (the 32-bit patterns are
\* kept as ints: a negative int is an unsigned value above every positive).
UnsignedLess(a, b) ==
    IF (a < 0) = (b < 0) THEN a < b ELSE b < 0

\* set_mtu's loop over the endpoint lines; next_mtu is unsigned, so -1 is
\* above zero and the comparison with endpoint_mtu is an unsigned one.
RECURSIVE set_mtu_loop(_, _)
set_mtu_loop(endpoint_mtu, lines) ==
    IF lines = <<>> THEN endpoint_mtu
    ELSE LET l == Head(lines)
             next_mtu == get_route_mtu(l.route)
         IN  IF ~EndpointMatches(l) THEN set_mtu_loop(endpoint_mtu, Tail(lines))
             ELSE IF next_mtu # 0 /\ UnsignedLess(next_mtu, endpoint_mtu)
                  THEN set_mtu_loop(next_mtu, Tail(lines))
                  ELSE set_mtu_loop(endpoint_mtu, Tail(lines))

\* The value set_mtu passes to `interface setmtu`.
set_mtu_value(mtu, m0, lines) ==
    IF mtu # 0 THEN mtu
    ELSE LET first == get_route_mtu(m0)
             endpoint_mtu == IF first = -1 THEN DEFAULT_MTU ELSE first
         IN  set_mtu_loop(endpoint_mtu, lines) - MTU_OVERHEAD

\* The queries set_mtu makes before `interface setmtu`, in order.
RECURSIVE set_mtu_peer_cmds(_)
set_mtu_peer_cmds(lines) ==
    IF lines = <<>> THEN <<>>
    ELSE (IF EndpointMatches(Head(lines))
          THEN get_route_cmds("peer", Head(lines).route) ELSE <<>>)
         \o set_mtu_peer_cmds(Tail(lines))

\* Mutant of set_mtu_cmds: the queries are made whatever the configured MTU.
set_mtu_cmds_probe_always(mtu, m0, lines) ==
    get_route_cmds("default", m0) \o <<"wg show endpoints">>
    \o set_mtu_peer_cmds(lines) \o <<"interface setmtu">>

\* The commands of set_mtu, in order: the queries, then `interface setmtu`.
set_mtu_cmds(mtu, m0, lines) ==
    (IF mtu # 0 THEN <<>>
     ELSE get_route_cmds("default", m0) \o <<"wg show endpoints">>
          \o set_mtu_peer_cmds(lines))
    \o <<"interface setmtu">>

(***************************************************************************)
(* Invocations.                                                            *)
(***************************************************************************)
AddrLists == SeqsUpTo(AddrTokens, MaxAddrs)
DnsLists == SeqsUpTo(DnsTokens, MaxDns)
AllowedIpOutputs == SeqsUpTo(RouteTokens, MaxRoutes)

\* main() after parse_options: `up` with a descriptor, or `down` with a name.
Invoke(p) ==
    /\ proc[p].pc = "idle"
    /\ \/ \E i \in IfaceNames, m \in MtuOverrides, a \in AddrLists, d \in DnsLists :
            Set(p, [Idle EXCEPT !.pc = "cmd_up", !.op = "up", !.iface = i,
                                !.mtu = m, !.addrs = a, !.dnses = d])
       \/ \E i \in IfaceNames :
            Set(p, [Idle EXCEPT !.pc = "cmd_down", !.op = "down", !.iface = i])
    /\ UNCHANGED <<env, call>>

\* The tool is run by one caller at a time.
Start(p) ==
    /\ \A q \in Procs : proc[q].pc = "idle"
    /\ Invoke(p)

\* The caller collects the terminated process.
Reap(p) ==
    /\ proc[p].pc = "done"
    /\ Set(p, Idle)
    /\ UNCHANGED <<env, call>>

\* Mutant of CmdUpProbe: the intent and the hook are set up before the probe.
CmdUpProbeHookFirst(p) ==
    /\ proc[p].pc = "cmd_up"
    /\ LET r == [proc[p] EXCEPT !.cleanup_iface = proc[p].iface, !.atexit = TRUE]
           exists == r.iface \in links
           r1 == Logged(r, "ip link show dev", r.iface, exists, 0)
       IN  Set(p, IF exists THEN exit(r1, EXISTS_STATUS)
                  ELSE [r1 EXCEPT !.pc = "add_if"])
    /\ UNCHANGED <<env, call>>

\* cmd_up, lines 453-459: the existence probe, then the exit hook.
CmdUpProbe(p) ==
    /\ proc[p].pc = "cmd_up"
    /\ LET r == proc[p]
           exists == r.iface \in links
           r1 == Logged(r, "ip link show dev", r.iface, exists, 0)
       IN  Set(p, IF exists THEN exit(r1, EXISTS_STATUS)
                  ELSE [r1 EXCEPT !.cleanup_iface = r.iface, !.atexit = TRUE,
                                  !.pc = "add_if"])
    /\ UNCHANGED <<env, call>>

\* Mutant of AddIf: set_mtu is called right after it, set_config is not.
AddIfThenSetMtu(p) ==
    /\ proc[p].pc = "add_if"
    /\ \E n \in ExitCodes :
         LET r == proc[p]
             r1 == Logged(r, "ip link add", r.iface, n = 0, W_EXITCODE(n))
         IN  /\ n = 0 => r.iface \notin links
             /\ Set(p, cmd(r1, W_EXITCODE(n), [r1 EXCEPT !.pc = "set_mtu"]))
             /\ links' = IF n = 0 THEN links \cup {r.iface} ELSE links
    /\ UNCHANGED <<networks, rules, call>>

\* add_if
AddIf(p) ==
    /\ proc[p].pc = "add_if"
    /\ \E n \in ExitCodes :
         LET r == proc[p]
             r1 == Logged(r, "ip link add", r.iface, n = 0, W_EXITCODE(n))
         IN  /\ n = 0 => r.iface \notin links
             /\ Set(p, cmd(r1, W_EXITCODE(n), [r1 EXCEPT !.pc = "set_config"]))
             /\ links' = IF n = 0 THEN links \cup {r.iface} ELSE links
    /\ UNCHANGED <<networks, rules, call>>

\* set_config: popen, fputs, pclose; what pclose returns is dropped.
SetConfig(p) ==
    /\ proc[p].pc = "set_config"
    /\ \E n \in ExitCodes :
         LET r == proc[p]
             r1 == Logged(r, "wg setconf", r.iface, n = 0, W_EXITCODE(n))
         IN  /\ n = 0 => r.iface \in links
             /\ Set(p, [r1 EXCEPT !.pc = "set_mtu"])
    /\ UNCHANGED <<env, call>>

\* strtok loop of set_addr: the next token that is passed to add_addr.
RECURSIVE NextAddr(_, _)
NextAddr(addrs, i) ==
    IF i > Len(addrs) THEN i
    ELSE IF Unsafe(addrs[i]) THEN NextAddr(addrs, i + 1)
    ELSE i

\* set_dnses up to its command: the quoted arguments, in order.
dns_arglist(dnses) == SelectSeq(dnses, LAMBDA t : ~Unsafe(t))

\* set_addr from token i on: the next add_addr, or up_if.
set_addr_from(r, i) ==
    LET j == NextAddr(r.addrs, i)
    IN  IF j > Len(r.addrs) THEN [r EXCEPT !.pc = "up_if", !.addr_i = j]
        ELSE [r EXCEPT !.pc = "add_addr", !.addr_i = j]

\* set_mtu
SetMtu(p) ==
    /\ proc[p].pc = "set_mtu"
    /\ \E m0 \in RouteAnswers, lines \in EndpointOutputs, reply \in BOOLEAN :
         LET r == proc[p]
             r1 == Logged(r, "interface setmtu",
                          <<r.iface, set_mtu_value(r.mtu, m0, lines)>>, reply, 0)
         IN  Set(p, cndc(r1, reply, set_addr_from(r1, 1)))
    /\ UNCHANGED <<env, call>>

IsV6(addr) == HasChar(addr, ":")

Digits == <<"0", "1", "2", "3", "4", "5", "6", "7", "8", "9">>
IsDigit(c) == \E d \in 1..10 : Digits[d] = c
DigitVal(c) == (CHOOSE d \in 1..10 : Digits[d] = c) - 1

\* atoi on a text of digits: the leading digits, 0 if there are none.
RECURSIVE AtoiFrom(_, _)
AtoiFrom(s, acc) ==
    IF s = <<>> \/ ~IsDigit(Head(s)) THEN acc
    ELSE AtoiFrom(Tail(s), 10 * acc + DigitVal(Head(s)))
atoi(s) == AtoiFrom(s, 0)

\* strchr(mutable, '/'): the index of the first slash, 0 if there is none.
SlashAt(addr) ==
    IF HasChar(addr, "/") THEN CHOOSE i \in 1..Len(addr) :
            addr[i] = "/" /\ \A j \in 1..(i - 1) : addr[j] # "/"
    ELSE 0

\* Mutant of addr_mask: the text after the slash is not read.
addr_mask_default_only(addr) == DEFAULT_MASK

\* add_addr, IPv4 branch: the host and the mask (an unsigned char).
addr_host(addr) ==
    IF SlashAt(addr) = 0 THEN addr ELSE SubSeq(addr, 1, SlashAt(addr) - 1)
addr_mask(addr) ==
    IF SlashAt(addr) = 0 THEN DEFAULT_MASK
    ELSE atoi(SubSeq(addr, SlashAt(addr) + 1, Len(addr))) % 256

\* add_addr: `interface ipv6 enable` for an IPv6 address, `interface setcfg`
\* for an IPv4 one.
AddAddr(p) ==
    /\ proc[p].pc = "add_addr"
    /\ \E reply \in BOOLEAN :
         LET r == proc[p]
             addr == r.addrs[r.addr_i]
             r6 == Logged(r, "interface ipv6 enable", r.iface, reply, 0)
             r4 == Logged(r, "interface setcfg",
                          <<r.iface, addr_host(addr), addr_mask(addr)>>, reply, 0)
         IN  Set(p, IF IsV6(addr)
                    THEN cndc(r6, reply, [r6 EXCEPT !.pc = "add_addr6"])
                    ELSE cndc(r4, reply, set_addr_from(r4, r.addr_i + 1)))
    /\ UNCHANGED <<env, call>>

\* add_addr, IPv6 branch: `ip -6 addr add`.
AddAddr6(p) ==
    /\ proc[p].pc = "add_addr6"
    /\ \E n \in ExitCodes :
         LET r == proc[p]
             r1 == Logged(r, "ip -6 addr add", <<r.iface, r.addrs[r.addr_i]>>,
                          n = 0, W_EXITCODE(n))
         IN  /\ n = 0 => r.iface \in links
             /\ Set(p, cmd(r1, W_EXITCODE(n), set_addr_from(r1, r.addr_i + 1)))
    /\ UNCHANGED <<env, call>>

\* up_if: the network id, then `wg set fwmark`.
UpIf(p) ==
    /\ proc[p].pc = "up_if"
    /\ \E id \in AllocNetIds, n \in ExitCodes :
         LET r == [proc[p] EXCEPT !.netid = id]
             r1 == Logged(r, "wg set fwmark", r.iface, n = 0, W_EXITCODE(n))
         IN  /\ n = 0 => r.iface \in links
             /\ Set(p, cmd(r1, W_EXITCODE(n), [r1 EXCEPT !.pc = "up_setcfg"]))
    /\ UNCHANGED <<env, call>>

\* up_if: `interface setcfg <iface> up`.
UpSetcfg(p) ==
    /\ proc[p].pc = "up_setcfg"
    /\ \E reply \in BOOLEAN :
         LET r == proc[p]
             r1 == Logged(r, "interface setcfg up", r.iface, reply, 0)
         IN  /\ reply => r.iface \in links
             /\ Set(p, cndc(r1, reply, [r1 EXCEPT !.pc = "network_create"]))
    /\ UNCHANGED <<env, call>>

\* up_if: `network create <netid> vpn 1 1`.
NetworkCreate(p) ==
    /\ proc[p].pc = "network_create"
    /\ \E reply \in BOOLEAN :
         LET r == proc[p]
             r1 == Logged(r, "network create", r.netid, reply, 0)
         IN  /\ reply => r.netid \notin networks
             /\ Set(p, cndc(r1, reply, [r1 EXCEPT !.pc = "network_interface_add"]))
             /\ networks' = IF reply THEN networks \cup {r.netid} ELSE networks
    /\ UNCHANGED <<links, rules, call>>

\* up_if: `network interface add <netid> <iface>`.
NetworkInterfaceAdd(p) ==
    /\ proc[p].pc = "network_interface_add"
    /\ \E reply \in BOOLEAN :
         LET r == proc[p]
             r1 == Logged(r, "network interface add", <<r.netid, r.iface>>, reply, 0)
         IN  /\ reply => /\ r.netid \in networks
                         /\ r.iface \in links
                         /\ \A i \in 1..Len(rules) : rules[i].table # r.iface
             /\ Set(p, cndc(r1, reply, [r1 EXCEPT !.pc = "network_users_add"]))
             /\ rules' = IF reply
                         THEN Append(rules, [fwmark |-> FWMARK_BASE + r.netid,
                                             table |-> r.iface])
                         ELSE rules
    /\ UNCHANGED <<links, networks, call>>

\* Mutant of cmd_up_finish: exit(0) with the intent still set.
cmd_up_finish_intent_kept(r) == exit(r, 0)

\* cmd_up, lines 469-471: the intent is cleared, then exit(0).
cmd_up_finish(r) == exit([r EXCEPT !.cleanup_iface = NULL], 0)

\* set_dnses up to its command: nothing to issue when the list or the
\* sanitised list is empty.
set_dnses_from(r) ==
    IF Len(r.dnses) = 0 \/ dns_arglist(r.dnses) = <<>>
    THEN [r EXCEPT !.pc = "set_routes"]
    ELSE [r EXCEPT !.pc = "set_dnses"]

\* up_if: `network users add <netid> 0-99999`.
NetworkUsersAdd(p) ==
    /\ proc[p].pc = "network_users_add"
    /\ \E reply \in BOOLEAN :
         LET r == proc[p]
             r1 == Logged(r, "network users add", r.netid, reply, 0)
         IN  /\ reply => r.netid \in networks
             /\ Set(p, cndc(r1, reply, set_dnses_from(r1)))
    /\ UNCHANGED <<env, call>>

\* set_dnses: `resolver setnetdns <netid> '' <arglist>`.
SetDnses(p) ==
    /\ proc[p].pc = "set_dnses"
    /\ \E reply \in BOOLEAN :
         LET r == proc[p]
             r1 == Logged(r, "resolver setnetdns",
                          <<r.netid, dns_arglist(r.dnses)>>, reply, 0)
         IN  /\ reply => r.netid \in networks
             /\ Set(p, cndc(r1, reply, [r1 EXCEPT !.pc = "set_routes"]))
    /\ UNCHANGED <<env, call>>

\* set_routes: `wg show <iface> allowed-ips`; ips are the ranges of the
\* lines read (none when the command fails: its status is not looked at).
SetRoutes(p) ==
    /\ proc[p].pc = "set_routes"
    /\ \E ok \in BOOLEAN, out \in AllowedIpOutputs :
         LET r == proc[p]
             ips == IF ok /\ r.iface \in links THEN out ELSE <<>>
             r1 == Logged(r, "wg show allowed-ips", r.iface,
                          ok /\ r.iface \in links, 0)
         IN  Set(p, IF ips = <<>> THEN cmd_up_finish(r1)
                    ELSE [r1 EXCEPT !.pc = "add_route", !.routes = ips])
    /\ UNCHANGED <<env, call>>

\* add_route: `network route add <netid> <iface> <route>`.
AddRoute(p) ==
    /\ proc[p].pc = "add_route"
    /\ \E reply \in BOOLEAN :
         LET r == proc[p]
             r1 == Logged(r, "network route add",
                          <<r.netid, r.iface, Head(r.routes)>>, reply, 0)
             r2 == [r1 EXCEPT !.routes = Tail(r.routes)]
         IN  /\ reply => r.netid \in networks
             /\ Set(p, cndc(r1, reply, IF r2.routes = <<>> THEN cmd_up_finish(r2)
                                       ELSE r2))
    /\ UNCHANGED <<env, call>>

\* Mutant of CmdDown: found is set by the first name of a list that is not
\* empty, whatever the name (the strcmp test lost).
CmdDownNoCompare(p) ==
    /\ proc[p].pc = "cmd_down"
    /\ \E ok \in BOOLEAN :
         LET r == proc[p]
             ifaces == IF ok THEN links ELSE {}
             found == ifaces # {}
             r1 == Logged(r, "wg show interfaces", ifaces, ok, 0)
         IN  Set(p, IF ~found THEN exit(r1, NOT_WG_STATUS)
                    ELSE [r1 EXCEPT !.pc = "del_if"])
    /\ UNCHANGED <<env, call>>

\* cmd_down up to del_if: `wg show interfaces`, the strtok/strcmp loop over
\* its first line, exit(43) when the name is not in it.
CmdDown(p) ==
    /\ proc[p].pc = "cmd_down"
    /\ \E ok \in BOOLEAN :
         LET r == proc[p]
             ifaces == IF ok THEN links ELSE {}
             found == \E eiface \in ifaces : eiface = r.iface
             r1 == Logged(r, "wg show interfaces", ifaces, ok, 0)
         IN  Set(p, IF ~found THEN exit(r1, NOT_WG_STATUS)
                    ELSE [r1 EXCEPT !.pc = "del_if"])
    /\ UNCHANGED <<env, call>>

\* The name del_if is called with: cleanup_iface from the exit hook, the
\* descriptor's name from cmd_down.
del_if_iface(r) == IF r.is_exiting THEN r.cleanup_iface ELSE r.iface

\* After del_if returns: the hook frees the intent and the process ends;
\* cmd_down calls exit(0).
del_if_return(r) == IF r.is_exiting THEN Terminated(r) ELSE exit(r, 0)

\* del_if: `ip link del <iface>`.  xregcomp of the pattern built from the
\* name comes first; it compiles for the names of IfaceNames, which hold no
\* repetition operator.
DelIfLinkDel(p) ==
    /\ proc[p].pc = "del_if"
    /\ \E n \in ExitCodes :
         LET r == proc[p]
             iface == del_if_iface(r)
             r1 == Logged(r, "ip link del", iface, n = 0, W_EXITCODE(n))
         IN  /\ n = 0 => iface \in links
             /\ Set(p, cmd(r1, W_EXITCODE(n), [r1 EXCEPT !.pc = "ip_rule_show"]))
             /\ links' = IF n = 0 THEN links \ {iface} ELSE links
    /\ UNCHANGED <<networks, rules, call>>

\* Mutant of DelIfRuleShow: del_if returns after `ip rule show` without
\* `network destroy`.
DelIfRuleShowOnly(p) ==
    /\ proc[p].pc = "ip_rule_show"
    /\ \E ok \in BOOLEAN :
         LET r == proc[p]
             lines == IF ok THEN rules ELSE <<>>
             r1 == Logged(r, "ip rule show", lines, ok, 0)
         IN  Set(p, del_if_return(r1))
    /\ UNCHANGED <<env, call>>

\* del_if: `ip rule show` and the regexec loop over its lines (no line is
\* read when the command fails: its status is not looked at).
DelIfRuleShow(p) ==
    /\ proc[p].pc = "ip_rule_show"
    /\ \E ok \in BOOLEAN :
         LET r == proc[p]
             lines == IF ok THEN rules ELSE <<>>
             netid == FirstMatch(del_if_iface(r), lines)
             r1 == Logged(r, "ip rule show", lines, ok, 0)
         IN  Set(p, IF netid = NULL THEN del_if_return(r1)
                    ELSE [r1 EXCEPT !.pc = "network_destroy", !.del_netid = netid])
    /\ UNCHANGED <<env, call>>

\* del_if: `network destroy <netid>`.
DelIfNetworkDestroy(p) ==
    /\ proc[p].pc = "network_destroy"
    /\ \E reply \in BOOLEAN :
         LET r == proc[p]
             id == r.del_netid[1]
             r1 == Logged(r, "network destroy", id, reply, 0)
         IN  /\ reply => id \in networks
             /\ Set(p, cndc(r1, reply, del_if_return(r1)))
             /\ networks' = IF reply THEN networks \ {id} ELSE networks
             /\ rules' = IF reply
                         THEN SelectSeq(rules, LAMBDA x : x.fwmark # FWMARK_BASE + id)
                         ELSE rules
    /\ UNCHANGED <<links, call>>

\* exit() called from inside the atexit handler (cndc does not look at
\* is_exiting): undefined behaviour.  The process ends with the status of
\* either call.
ExitReentered(p) ==
    /\ proc[p].pc = "exit_reentered"
    /\ \E arg \in {proc[p].exit_arg, proc[p].reexit_arg} :
         Set(p, [proc[p] EXCEPT !.pc = "done", !.status = ProcessStatus(arg)])
    /\ UNCHANGED <<env, call>>

(***************************************************************************)
(* Specification of the tool run by one caller at a time.                  *)
(***************************************************************************)
NoCall == [fn |-> "none"]

Init ==
    /\ proc = [p \in Procs |-> Idle]
    /\ links = {}
    /\ networks = {}
    /\ rules = <<>>
    /\ call = NoCall

Step(p) ==
    \/ CmdUpProbe(p)
    \/ AddIf(p)
    \/ SetConfig(p)
    \/ SetMtu(p)
    \/ AddAddr(p)
    \/ AddAddr6(p)
    \/ UpIf(p)
    \/ UpSetcfg(p)
    \/ NetworkCreate(p)
    \/ NetworkInterfaceAdd(p)
    \/ NetworkUsersAdd(p)
    \/ SetDnses(p)
    \/ SetRoutes(p)
    \/ AddRoute(p)
    \/ CmdDown(p)
    \/ DelIfLinkDel(p)
    \/ DelIfRuleShow(p)
    \/ DelIfNetworkDestroy(p)
    \/ ExitReentered(p)
    \/ Reap(p)

\* The slot of the caller's invocation.
Caller == "p1"

Next == Start(Caller) \/ Step(Caller)

Spec == Init /\ [][Next]_vars

(***************************************************************************)
(* Specification of set_mtu alone, on drawn inputs.                        *)
(***************************************************************************)
InitMtu ==
    /\ proc = [p \in Procs |-> Idle]
    /\ links = {}
    /\ networks = {}
    /\ rules = <<>>
    /\ call \in {[fn |-> "set_mtu", mtu |-> m, m0 |-> a, lines |-> l,
                  done |-> FALSE, value |-> 0, cmds |-> <<>>] :
                    m \in MtuOverrides, a \in RouteAnswers, l \in EndpointOutputs}

CallSetMtu ==
    /\ call.fn = "set_mtu"
    /\ ~call.done
    /\ call' = [call EXCEPT !.done = TRUE,
                            !.value = set_mtu_value(call.mtu, call.m0, call.lines),
                            !.cmds = set_mtu_cmds(call.mtu, call.m0, call.lines)]
    /\ UNCHANGED <<proc, env>>

NextMtu == CallSetMtu

SpecMtu == InitMtu /\ [][NextMtu]_vars

(***************************************************************************)
(* Vocabulary of the properties.                                           *)
(***************************************************************************)
Done(p) == proc[p].pc = "done"
Log(p) == proc[p].log
Idx(p) == 1..Len(proc[p].log)

\* Commands run through cmd() and through cndc().
CmdCommands == {"ip link add", "ip -6 addr add", "wg set fwmark", "ip link del"}
CndcCommands ==
    {"interface setmtu", "interface ipv6 enable", "interface setcfg",
     "interface setcfg up", "network create", "network interface add",
     "network users add", "resolver setnetdns", "network route add",
     "network destroy"}

\* This invocation's `ip link add` succeeded at entry i.
CreatedAt(p, i) == Log(p)[i].cmd = "ip link add" /\ Log(p)[i].ok

\* Entry j is a command of cmd() or cndc() that failed outside the hook.
FailedAt(p, j) ==
    /\ ~Log(p)[j].hook
    /\ ~Log(p)[j].ok
    /\ Log(p)[j].cmd \in CmdCommands \cup CndcCommands

HookIssued(p, c) == \E i \in Idx(p) : Log(p)[i].hook /\ Log(p)[i].cmd = c
HookFailed(p, c) ==
    \E i \in Idx(p) : Log(p)[i].hook /\ Log(p)[i].cmd = c /\ ~Log(p)[i].ok

FailedAfterCreation(p) ==
    /\ proc[p].op = "up"
    /\ \E i \in Idx(p), j \in Idx(p) : i < j /\ CreatedAt(p, i) /\ FailedAt(p, j)

\* C1: a failure of a cmd() or cndc() command of `up` after `ip link add`
\* succeeded leaves, once the process has terminated, no interface of the
\* descriptor's name, provided the hook's own `ip link del` succeeds.
C1_NoInterfaceAfterFailedUp ==
    \A p \in Procs :
        (Done(p) /\ FailedAfterCreation(p) /\ ~HookFailed(p, "ip link del"))
            => proc[p].iface \notin links

C1_Witness ==
    \E p \in Procs :
        /\ Done(p)
        /\ FailedAfterCreation(p)
        /\ HookIssued(p, "ip link del")
        /\ ~HookFailed(p, "ip link del")
        /\ proc[p].iface \notin links

\* `network create` succeeded at entry i and a later command of the bind,
\* DNS or route steps failed.
FailedAfterNetworkCreate(p) ==
    /\ proc[p].op = "up"
    /\ \E i \in Idx(p), j \in Idx(p) :
        /\ i < j
        /\ Log(p)[i].cmd = "network create" /\ Log(p)[i].ok
        /\ FailedAt(p, j)
        /\ Log(p)[j].cmd \in {"network interface add", "network users add",
                              "resolver setnetdns", "network route add"}

\* C2: a failure of `up` at or after a successful `network create` leaves,
\* once the process has terminated, no network with the id this invocation
\* allocated.
C2_NoNetworkAfterFailedUp ==
    \A p \in Procs :
        (Done(p) /\ FailedAfterNetworkCreate(p)) => proc[p].netid \notin networks

\* A step of `up` succeeded: the probe found nothing, any other command
\* ended well.
StepSucceeded(e) == IF e.cmd = "ip link show dev" THEN ~e.ok ELSE e.ok

UpAllSucceeded(p) ==
    /\ proc[p].op = "up"
    /\ Done(p)
    /\ \A i \in Idx(p) : StepSucceeded(Log(p)[i])

Bound(p) ==
    /\ proc[p].iface \in links
    /\ proc[p].netid \in networks
    /\ \E i \in 1..Len(rules) :
        rules[i] = [fwmark |-> FWMARK_BASE + proc[p].netid, table |-> proc[p].iface]

\* C3: when every step of `up` succeeds, the intent is cleared before
\* exit(0), the exit hook issues no command, and after the process has
\* terminated the interface exists with its network binding.
C3_SuccessfulUpNoTeardown ==
    \A p \in Procs :
        UpAllSucceeded(p) =>
            /\ proc[p].cleanup_iface = NULL
            /\ proc[p].exit_arg = 0
            /\ proc[p].status = 0
            /\ \A i \in Idx(p) : ~Log(p)[i].hook
            /\ Bound(p)

C3_Witness ==
    \E p \in Procs :
        /\ UpAllSucceeded(p)
        /\ \E i \in Idx(p) : Log(p)[i].cmd = "network route add"
        /\ proc[p].is_exiting
        /\ Bound(p)

\* A step's external command ended badly (the probe is not a step).
StepFailed(e) == e.cmd # "ip link show dev" /\ ~e.ok

\* C4: in `up`, after a step whose command failed no command of a later
\* step is issued and the cleanup path runs, and the process does not end
\* with status 0; so status 0 means every step's command succeeded.
C4_StepFailureTripsCleanup ==
    \A p \in Procs :
        proc[p].op = "up" =>
            /\ \A i \in Idx(p), j \in Idx(p) :
                (i < j /\ ~Log(p)[i].hook /\ StepFailed(Log(p)[i])) => Log(p)[j].hook
            /\ (Done(p) /\ \E i \in Idx(p) : ~Log(p)[i].hook /\ StepFailed(Log(p)[i]))
                => (proc[p].is_exiting /\ proc[p].status # 0)

\* C5: a command run through cmd() outside the exit hook that exits with a
\* code in 1..255 makes the process end with a nonzero status.
C5_CmdFailurePropagated ==
    \A p \in Procs :
        (/\ Done(p)
         /\ \E i \in Idx(p), n \in 1..255 :
                /\ ~Log(p)[i].hook
                /\ Log(p)[i].cmd \in CmdCommands
                /\ Log(p)[i].ret = W_EXITCODE(n))
            => proc[p].status # 0

\* C6: while the exit hook runs, a failure of a command of del_if never
\* calls exit() again, never changes the status the process is ending
\* with, and never stops the hook before its end.
C6_HookFailuresSwallowed ==
    \A p \in Procs :
        proc[p].is_exiting =>
            /\ proc[p].exit_calls <= 1
            /\ proc[p].pc # "exit_reentered"
            /\ Done(p) => proc[p].status = ProcessStatus(proc[p].exit_arg)

\* C7: `up` on a name whose probe returns output ends with status 92, has
\* issued no other command, has no exit hook registered and leaves the
\* interface in place.
C7_ExistingNameIsPreconditionFailure ==
    \A p \in Procs :
        (/\ proc[p].op = "up"
         /\ Len(Log(p)) >= 1
         /\ Log(p)[1].cmd = "ip link show dev"
         /\ Log(p)[1].ok)
            => /\ Done(p)
               /\ proc[p].status = EXISTS_STATUS
               /\ Len(Log(p)) = 1
               /\ ~proc[p].atexit
               /\ ~proc[p].is_exiting
               /\ proc[p].iface \in links

C7_Witness ==
    \E p \in Procs :
        /\ proc[p].op = "up"
        /\ Done(p)
        /\ Len(Log(p)) = 1
        /\ Log(p)[1].ok
        /\ proc[p].status = EXISTS_STATUS
        /\ proc[p].iface \in links

\* C8: `down` for a name that is not in the list `wg show interfaces`
\* returns (empty list and no answer included) issues no other command,
\* ends with status 43 and leaves the system state as it was, every time.
C8_DownUnmanagedIsNoOp ==
    [][\A p \in Procs :
        (/\ proc[p].pc = "cmd_down"
         /\ proc'[p] # proc[p]
         /\ proc[p].iface \notin proc'[p].log[1].arg)
            => /\ proc'[p].pc = "done"
               /\ proc'[p].status = NOT_WG_STATUS
               /\ Len(proc'[p].log) = 1
               /\ UNCHANGED env]_vars

C8_Witness ==
    \E p \in Procs :
        /\ proc[p].op = "down"
        /\ Done(p)
        /\ proc[p].status = NOT_WG_STATUS
        /\ Len(Log(p)) = 1
        /\ links # {}

\* C9: `down` that ends with status 0 leaves no interface of that name and
\* no network binding with that interface attached.
C9_DownSuccessContract ==
    \A p \in Procs :
        (Done(p) /\ proc[p].op = "down" /\ proc[p].status = 0)
            => /\ proc[p].iface \notin links
               /\ \A i \in 1..Len(rules) : rules[i].table # proc[p].iface

(***************************************************************************)
(* MTU.                                                                    *)
(***************************************************************************)
Min(S) == CHOOSE x \in S : \A y \in S : x <= y

\* The samples of a call: the default route's, with 1500 for an
\* unresolvable one, and the resolved ones of the peers' endpoints.
ResolvedSamples(m0, lines) ==
    {IF get_route_mtu(m0) = -1 THEN DEFAULT_MTU ELSE get_route_mtu(m0)}
    \cup {get_route_mtu(lines[i].route) :
            i \in {k \in 1..Len(lines) :
                    lines[k].ep = "addr" /\ get_route_mtu(lines[k].route) > 0}}

\* C10: with a configured MTU of 0 the value passed to `interface setmtu`
\* is the minimum of the resolved samples minus 80 (1420 when none
\* resolves).
C10_MtuIsMinimumMinusOverhead ==
    (call.fn = "set_mtu" /\ call.done /\ call.mtu = 0)
        => call.value = Min(ResolvedSamples(call.m0, call.lines)) - MTU_OVERHEAD

(***************************************************************************)
(* NetworkIdAllocator: the loop of up_if alone, on drawn values of         *)
(* random().                                                               *)
(***************************************************************************)
MaxDraws == 3

\* Values random() returns (a long in 0 .. 2^31 - 1).
AllocDraws == RandomDraws \cup {4096, 65535, 69631, 2147483647}

InitAlloc ==
    /\ proc = [p \in Procs |-> Idle]
    /\ links = {}
    /\ networks = {}
    /\ rules = <<>>
    /\ call \in {[fn |-> "up_if", draws |-> d, i |-> 0, netid |-> 0,
                  done |-> FALSE] : d \in SeqsUpTo(AllocDraws, MaxDraws)}

\* One turn of `while (*netid < 4096) *netid = random() & 0xfffe;`.
UpIfDraw ==
    /\ call.fn = "up_if"
    /\ ~call.done
    /\ call.netid < MIN_NETID
    /\ call.i < Len(call.draws)
    /\ call' = [call EXCEPT !.i = @ + 1,
                            !.netid = MaskDraw(call.draws[call.i + 1])]
    /\ UNCHANGED <<proc, env>>

\* The loop ends: the id is the one the commands of up_if are given.
UpIfAllocated ==
    /\ call.fn = "up_if"
    /\ ~call.done
    /\ call.netid >= MIN_NETID
    /\ call' = [call EXCEPT !.done = TRUE]
    /\ UNCHANGED <<proc, env>>

NextAlloc == UpIfDraw \/ UpIfAllocated

SpecAlloc == InitAlloc /\ [][NextAlloc]_vars

\* C11: whatever random() returns, the id up_if leaves its loop with is
\* even and lies in 4096..65534, and no candidate below 4096 is kept.
C11_AllocatorRange ==
    (call.fn = "up_if" /\ call.done)
        => /\ MIN_NETID <= call.netid
           /\ call.netid <= 65534
           /\ call.netid % 2 = 0

C11_Witness ==
    /\ call.fn = "up_if"
    /\ call.done
    /\ call.i = 3
    /\ call.netid = 65534

(***************************************************************************)
(* set_dnses alone, on the text of the DNS list: strtok, the test for      *)
(* quote and backslash, snprintf and strncat into the argument list.       *)
(***************************************************************************)
MaxDnsLen == 4

\* The delimiters of strtok(.., ", \t\n").
Delims == {",", " ", "\t", "\n"}

\* Characters of a DNS or address list as parse_options leaves it: white
\* space has been removed from every value, values are joined with commas.
DnsChars == {"1", "2", ",", "'", "\\"}

DnsTexts == SeqsUpTo(DnsChars, MaxDnsLen)

\* The tokens strtok returns one after the other.
RECURSIVE strtok(_, _)
strtok(s, cur) ==
    IF s = <<>> THEN (IF cur = <<>> THEN <<>> ELSE <<cur>>)
    ELSE IF Head(s) \in Delims
         THEN (IF cur = <<>> THEN <<>> ELSE <<cur>>) \o strtok(Tail(s), <<>>)
         ELSE strtok(Tail(s), Append(cur, Head(s)))

\* What snprintf(.., size, ..) and strncat(.., .., n) keep of a text.
Take(s, n) == IF n <= 0 THEN <<>> ELSE IF n >= Len(s) THEN s ELSE SubSeq(s, 1, n)

\* snprintf(arg, len + 3, "'%s' ", dns): at most len + 2 characters.
dns_arg(dns, len) == Take(<<"'">> \o dns \o <<"'", " ">>, len + 2)

\* The loop of set_dnses over the tokens; strncat(arglist, arg, len * 4 - 1).
RECURSIVE set_dnses_loop(_, _, _)
set_dnses_loop(toks, len, arglist) ==
    IF toks = <<>> THEN arglist
    ELSE IF Unsafe(Head(toks)) THEN set_dnses_loop(Tail(toks), len, arglist)
    ELSE set_dnses_loop(Tail(toks), len,
                        arglist \o Take(dns_arg(Head(toks), len), len * 4 - 1))

set_dnses_arglist(dnses) == set_dnses_loop(strtok(dnses, <<>>), Len(dnses), <<>>)

\* The commands set_dnses issues: none for an empty list or an empty
\* argument list, else one `resolver setnetdns` with the argument list.
set_dnses_cmds(dnses) ==
    IF Len(dnses) = 0 \/ set_dnses_arglist(dnses) = <<>> THEN <<>>
    ELSE <<[cmd |-> "resolver setnetdns", arglist |-> set_dnses_arglist(dnses)]>>

\* The words the shell of popen() makes of a text: blanks separate words
\* outside single quotes, everything between two single quotes is literal.
RECURSIVE sh_words(_, _, _, _)
sh_words(s, cur, inword, quoted) ==
    IF s = <<>> THEN (IF inword THEN <<cur>> ELSE <<>>)
    ELSE LET c == Head(s)
         IN  IF quoted
             THEN (IF c = "'" THEN sh_words(Tail(s), cur, TRUE, FALSE)
                   ELSE sh_words(Tail(s), Append(cur, c), TRUE, TRUE))
             ELSE IF c = "'" THEN sh_words(Tail(s), cur, TRUE, TRUE)
             ELSE IF c = " "
                  THEN (IF inword THEN <<cur>> ELSE <<>>)
                       \o sh_words(Tail(s), <<>>, FALSE, FALSE)
                  ELSE sh_words(Tail(s), Append(cur, c), TRUE, FALSE)

InitDns ==
    /\ proc = [p \in Procs |-> Idle]
    /\ links = {}
    /\ networks = {}
    /\ rules = <<>>
    /\ call \in {[fn |-> "set_dnses", dnses |-> d, done |-> FALSE,
                  cmds |-> <<>>, room |-> 0] : d \in DnsTexts}

\* room is the size of the buffer xmalloc(len * 4 + 1) gives arglist.
CallSetDnses ==
    /\ call.fn = "set_dnses"
    /\ ~call.done
    /\ call' = [call EXCEPT !.done = TRUE,
                            !.cmds = set_dnses_cmds(call.dnses),
                            !.room = Len(call.dnses) * 4 + 1]
    /\ UNCHANGED <<proc, env>>

NextDns == CallSetDnses

SpecDns == InitDns /\ [][NextDns]_vars

\* The entries of a list: the maximal runs of characters that are neither
\* a comma nor white space, in the order of the text.
Separators == {",", " ", "\t", "\n"}
EntryStarts(s) ==
    {i \in 1..Len(s) : s[i] \notin Separators /\ (i = 1 \/ s[i - 1] \in Separators)}
EntryEnd(s, i) ==
    CHOOSE j \in i..Len(s) :
        /\ \A k \in i..j : s[k] \notin Separators
        /\ (j = Len(s) \/ s[j + 1] \in Separators)
NthStart(s, n) ==
    CHOOSE i \in EntryStarts(s) : Cardinality({j \in EntryStarts(s) : j < i}) = n - 1
Entries(s) ==
    [n \in 1..Cardinality(EntryStarts(s)) |->
        SubSeq(s, NthStart(s, n), EntryEnd(s, NthStart(s, n)))]

\* An entry with neither a single quote nor a backslash.
Plain(e) == \A i \in 1..Len(e) : e[i] # "'" /\ e[i] # "\\"

\* C12: the words the single `resolver setnetdns` command carries after
\* its '' argument are exactly the entries of the DNS list without quote
\* and backslash, in the order of the list, one quoted word each; when
\* there is no such entry no command is issued.
C12_DnsSanitization ==
    (call.fn = "set_dnses" /\ call.done) =>
        LET want == SelectSeq(Entries(call.dnses), Plain)
        IN  /\ (want = <<>>) => call.cmds = <<>>
            /\ (want # <<>>) =>
                /\ Len(call.cmds) = 1
                /\ call.cmds[1].cmd = "resolver setnetdns"
                /\ sh_words(call.cmds[1].arglist, <<>>, FALSE, FALSE) = want
                /\ Len(call.cmds[1].arglist) < call.room

C12_Witness ==
    /\ call.fn = "set_dnses"
    /\ call.done
    /\ call.dnses = <<"1", ",", "'", ",">>
    /\ Len(call.cmds) = 1
    /\ call.cmds[1].arglist = <<"'", "1", "'", " ">>

(***************************************************************************)
(* set_addr and add_addr alone, on the text of the address list, every     *)
(* command succeeding.                                                     *)
(***************************************************************************)
MaxAddrLen == 4

AddrChars == {"a", ":", "/", "8", ",", "'"}

AddrTexts == SeqsUpTo(AddrChars, MaxAddrLen)

\* The commands add_addr issues for one token.
add_addr_cmds(addr) ==
    IF IsV6(addr)
    THEN <<[cmd |-> "interface ipv6 enable"],
           [cmd |-> "ip -6 addr add", addr |-> addr]>>
    ELSE <<[cmd |-> "interface setcfg", host |-> addr_host(addr),
            mask |-> addr_mask(addr)]>>

\* The loop of set_addr over the tokens.
RECURSIVE set_addr_loop(_)
set_addr_loop(toks) ==
    IF toks = <<>> THEN <<>>
    ELSE (IF Unsafe(Head(toks)) THEN <<>> ELSE add_addr_cmds(Head(toks)))
         \o set_addr_loop(Tail(toks))

set_addr_cmds(addrs) == set_addr_loop(strtok(addrs, <<>>))

InitAddr ==
    /\ proc = [p \in Procs |-> Idle]
    /\ links = {}
    /\ networks = {}
    /\ rules = <<>>
    /\ call \in {[fn |-> "set_addr", addrs |-> a, done |-> FALSE, cmds |-> <<>>] :
                    a \in AddrTexts}

CallSetAddr ==
    /\ call.fn = "set_addr"
    /\ ~call.done
    /\ call' = [call EXCEPT !.done = TRUE, !.cmds = set_addr_cmds(call.addrs)]
    /\ UNCHANGED <<proc, env>>

NextAddrs == CallSetAddr

SpecAddr == InitAddr /\ [][NextAddrs]_vars

\* The assignments a sequence of commands makes: `interface ipv6 enable`
\* with the `ip -6 addr add` after it is one, `interface setcfg` is one.
RECURSIVE Assignments(_)
Assignments(cmds) ==
    IF cmds = <<>> THEN <<>>
    ELSE IF Head(cmds).cmd = "interface setcfg"
         THEN <<[family |-> 4, host |-> Head(cmds).host, prefix |-> Head(cmds).mask]>>
              \o Assignments(Tail(cmds))
    ELSE IF /\ Head(cmds).cmd = "interface ipv6 enable"
            /\ Len(cmds) >= 2
            /\ cmds[2].cmd = "ip -6 addr add"
         THEN <<[family |-> 6, addr |-> cmds[2].addr]>>
              \o Assignments(Tail(Tail(cmds)))
    ELSE <<[family |-> 0]>> \o Assignments(Tail(cmds))

\* The decimal number a text begins with, 0 when it begins with no digit.
LeadingDigits(s) ==
    LET n == CHOOSE k \in 0..Len(s) :
                /\ \A i \in 1..k : IsDigit(s[i])
                /\ (k = Len(s) \/ ~IsDigit(s[k + 1]))
    IN  SubSeq(s, 1, n)
RECURSIVE Decimal(_)
Decimal(ds) ==
    IF ds = <<>> THEN 0
    ELSE 10 * Decimal(SubSeq(ds, 1, Len(ds) - 1)) + DigitVal(ds[Len(ds)])

HostPart(e) ==
    IF \E i \in 1..Len(e) : e[i] = "/"
    THEN SubSeq(e, 1, (CHOOSE i \in 1..Len(e) :
                        e[i] = "/" /\ \A j \in 1..(i - 1) : e[j] # "/") - 1)
    ELSE e
AfterSlash(e) == SubSeq(e, Len(HostPart(e)) + 2, Len(e))
HasSlash(e) == Len(HostPart(e)) < Len(e)

\* The assignment an entry asks for: the prefix length is the number after
\* the slash, 32 without a slash.
Asked(e) ==
    IF \E i \in 1..Len(e) : e[i] = ":" THEN [family |-> 6, addr |-> e]
    ELSE [family |-> 4, host |-> HostPart(e),
          prefix |-> IF HasSlash(e) THEN Decimal(LeadingDigits(AfterSlash(e)))
                     ELSE 32]

\* The same with the prefix length as add_addr's unsigned char holds it.
AskedByte(e) ==
    IF Asked(e).family = 4 THEN [Asked(e) EXCEPT !.prefix = @ % 256] ELSE Asked(e)

\* C13 as stated: the assignments issued are, in order, one for every entry
\* of the address list.
C13_EveryAddressAssigned ==
    (call.fn = "set_addr" /\ call.done) =>
        LET es == Entries(call.addrs)
        IN  Assignments(call.cmds) = [n \in 1..Len(es) |-> Asked(es[n])]

\* C13 amended: the assignments issued are, in order, one for every entry
\* that holds neither a single quote nor a backslash, an IPv4 prefix length
\* being the number after the slash as an unsigned char.
C13_PlainAddressesAssigned ==
    (call.fn = "set_addr" /\ call.done) =>
        LET es == SelectSeq(Entries(call.addrs), Plain)
        IN  Assignments(call.cmds) = [n \in 1..Len(es) |-> AskedByte(es[n])]

C13_Witness ==
    /\ call.fn = "set_addr"
    /\ call.done
    /\ call.addrs = <<":", ",", "a">>
    /\ Assignments(call.cmds) =
        <<[family |-> 6, addr |-> <<":">>],
          [family |-> 4, host |-> <<"a">>, prefix |-> 32]>>

(***************************************************************************)
(* Two `up` invocations as separate processes, their commands interleaved. *)
(* The descriptors carry an explicit MTU and neither addresses nor DNS.    *)
(***************************************************************************)
InvokeUp(p) ==
    /\ proc[p].pc = "idle"
    /\ \E i \in IfaceNames, m \in MtuOverrides \ {0} :
         Set(p, [Idle EXCEPT !.pc = "cmd_up", !.op = "up", !.iface = i, !.mtu = m])
    /\ UNCHANGED <<env, call>>

StepUp(p) ==
    \/ CmdUpProbe(p)
    \/ AddIf(p)
    \/ SetConfig(p)
    \/ SetMtu(p)
    \/ UpIf(p)
    \/ UpSetcfg(p)
    \/ NetworkCreate(p)
    \/ NetworkInterfaceAdd(p)
    \/ NetworkUsersAdd(p)
    \/ SetRoutes(p)
    \/ AddRoute(p)
    \/ DelIfLinkDel(p)
    \/ DelIfRuleShow(p)
    \/ DelIfNetworkDestroy(p)
    \/ ExitReentered(p)

NextConc == \E p \in Procs : InvokeUp(p) \/ StepUp(p)

SpecConc == Init /\ [][NextConc]_vars

\* The interface of p's descriptor is attached to the network p allocated.
ActiveBinding(p) ==
    /\ proc[p].op = "up"
    /\ \E i \in Idx(p) : Log(p)[i].cmd = "network interface add" /\ Log(p)[i].ok
    /\ Bound(p)

Follows(c) ==
    CASE c = "ip link show dev" -> {"ip link add"}
      [] c = "ip link add" -> {"wg setconf"}
      [] c = "wg setconf" -> {"interface setmtu"}
      [] c \in {"interface setmtu", "ip -6 addr add", "interface setcfg"} ->
            {"interface ipv6 enable", "interface setcfg", "wg set fwmark"}
      [] c = "interface ipv6 enable" -> {"ip -6 addr add"}
      [] c = "wg set fwmark" -> {"interface setcfg up"}
      [] c = "interface setcfg up" -> {"network create"}
      [] c = "network create" -> {"network interface add"}
      [] c = "network interface add" -> {"network users add"}
      [] c = "network users add" -> {"resolver setnetdns", "wg show allowed-ips"}
      [] c = "resolver setnetdns" -> {"wg show allowed-ips"}
      [] c \in {"wg show allowed-ips", "network route add"} -> {"network route add"}
      [] OTHER -> {}

\* The network id a command of the bind, DNS or route steps carries.
CarriedNetid(e) == IF e.cmd = "network users add" THEN e.arg ELSE e.arg[1]

\* C15: outside the exit hook the commands of `up` come one after the
\* other in the order probe, `ip link add`, `wg setconf`, `interface
\* setmtu`, the address assignments, `wg set fwmark`, `interface setcfg up`,
\* `network create`, `network interface add`, `network users add`,
\* `resolver setnetdns`, the routes; a command is issued when the one
\* before it has returned (every entry of the log is a command that has
\* ended), and the interface-add, users-add, DNS and route commands carry
\* the id of the successful `network create` before them.
C15_StepOrder ==
    \A p \in Procs :
        proc[p].op = "up" =>
            /\ Len(Log(p)) >= 1 => Log(p)[1].cmd = "ip link show dev"
            /\ \A i \in Idx(p) :
                (i > 1 /\ ~Log(p)[i].hook) =>
                    Log(p)[i].cmd \in Follows(Log(p)[i - 1].cmd)
            /\ \A i \in Idx(p) :
                (/\ ~Log(p)[i].hook
                 /\ Log(p)[i].cmd \in {"network interface add", "network users add",
                                       "resolver setnetdns", "network route add"})
                    => \E j \in 1..(i - 1) :
                        /\ Log(p)[j].cmd = "network create"
                        /\ Log(p)[j].ok
                        /\ Log(p)[j].arg = CarriedNetid(Log(p)[i])
                        /\ \A k \in (j + 1)..i : Log(p)[k].cmd # "network create"

C15_Witness ==
    \E p \in Procs :
        /\ UpAllSucceeded(p)
        /\ \E i \in Idx(p) : Log(p)[i].cmd = "ip -6 addr add"
        /\ \E i \in Idx(p) : Log(p)[i].cmd = "resolver setnetdns"
        /\ Log(p)[Len(Log(p))].cmd = "network route add"

(***************************************************************************)
(* The cleanup intent.                                                     *)
(***************************************************************************)
\* C16: while an `up` invocation runs, cleanup_iface holds a name only if
\* this invocation's `ip link add` has succeeded; it holds none before
\* that, and none when `up` ends with every step done.
C16_IntentOnlyAfterCreation ==
    \A p \in Procs :
        proc[p].op = "up" =>
            /\ (~Done(p) /\ proc[p].cleanup_iface # NULL)
                => \E i \in Idx(p) : CreatedAt(p, i)
            /\ UpAllSucceeded(p) => proc[p].cleanup_iface = NULL

\* C20: of two `up` invocations of one interface name, the exit hook of the
\* one whose `ip link add` did not succeed removes no interface and
\* destroys no network: the interface of that name is the other's.
C20_HookDeletesOnlyOwnInterface ==
    \A p \in Procs, q \in Procs :
        (/\ p # q
         /\ proc[p].op = "up"
         /\ proc[q].op = "up"
         /\ proc[p].iface = proc[q].iface
         /\ ~\E i \in Idx(p) : CreatedAt(p, i)
         /\ \E i \in Idx(q) : CreatedAt(q, i)) =>
            \A j \in Idx(p) :
                (Log(p)[j].hook /\ Log(p)[j].cmd \in {"ip link del", "network destroy"})
                    => ~Log(p)[j].ok

(***************************************************************************)
(* The commands of `down`.                                                 *)
(***************************************************************************)
\* C17 as stated: of the commands that change the system, `down` issues
\* `ip link del` only, never one that destroys the network.
C17_DownIssuesOnlyLinkDel ==
    \A p \in Procs :
        proc[p].op = "down" =>
            \A i \in Idx(p) :
                Log(p)[i].cmd \in {"wg show interfaces", "ip link del", "ip rule show"}

\* The lines of `ip rule show` whose fwmark is 0xc<id> and whose table
\* name begins with the name.
LinesOf(name, lines) ==
    {k \in 1..Len(lines) :
        /\ lines[k].fwmark \in FWMARK_BASE..(FWMARK_BASE + 65535)
        /\ IsPrefix(name, lines[k].table)}

\* C17 amended: `down` issues `wg show interfaces`, then `ip link del`,
\* then `ip rule show`, and then one `network destroy` exactly when a line
\* of the rules looks up a table whose name begins with the interface name
\* under a fwmark 0xc<id>, with the id of the first such line.
C17_DownDestroysScrapedNetwork ==
    \A p \in Procs :
        proc[p].op = "down" =>
            /\ Len(Log(p)) <= 4
            /\ \A i \in Idx(p) :
                Log(p)[i].cmd =
                    <<"wg show interfaces", "ip link del", "ip rule show",
                      "network destroy">>[i]
            /\ Len(Log(p)) = 4 =>
                /\ LinesOf(proc[p].iface, Log(p)[3].arg) # {}
                /\ Log(p)[4].arg =
                    Log(p)[3].arg[Min(LinesOf(proc[p].iface, Log(p)[3].arg))].fwmark
                        - FWMARK_BASE
            /\ (Done(p) /\ Len(Log(p)) = 3) =>
                LinesOf(proc[p].iface, Log(p)[3].arg) = {}

C17_Witness ==
    \E p \in Procs :
        /\ proc[p].op = "down"
        /\ Done(p)
        /\ Len(Log(p)) = 4
        /\ Log(p)[4].cmd = "network destroy"
        /\ Log(p)[4].ok
        /\ proc[p].iface \notin links

\* C18: with a configured MTU other than 0, set_mtu passes that value to
\* one `interface setmtu` and runs no query; with 0, the first command is
\* the default route's query, before the list of the peers' endpoints and
\* any query for one of them.
C18_ExplicitMtuBypassesProbing ==
    (call.fn = "set_mtu" /\ call.done) =>
        /\ call.mtu # 0 =>
            /\ call.value = call.mtu
            /\ call.cmds = <<"interface setmtu">>
        /\ call.mtu = 0 =>
            /\ call.cmds[1] = "ip -o route show"
            /\ \A i \in 1..Len(call.cmds) :
                call.cmds[i] \in {"wg show endpoints", "ip -o route get"} => i > 1
            /\ call.cmds[Len(call.cmds)] = "interface setmtu"

C18_Witness ==
    /\ call.fn = "set_mtu"
    /\ call.done
    /\ call.mtu = 1280
    /\ call.lines # <<>>
    /\ call.value = 1280
    /\ call.cmds = <<"interface setmtu">>

(***************************************************************************)
(* parse_options, the loop over the lines of the file.  A line is a        *)
(* sequence of lexemes: a section marker, a key with its "=", a value, or  *)
(* a white-space character.                                                *)
(***************************************************************************)
MaxLines == 3

\* isspace()
IsSpace(x) == x \in {" ", "\t", "\n"}

\* The lexemes whose first character is '['.
Brackets == {"[Interface]", "[interface]", "[Peer]"}

\* A lexeme as strcasecmp and strncasecmp compare it.
Lower(x) ==
    CASE x = "[Interface]" -> "[interface]"
      [] x = "[Peer]" -> "[peer]"
      [] x = "Address=" -> "address="
      [] x = "DNS=" -> "dns="
      [] x = "MTU=" -> "mtu="
      [] x = "Key=" -> "key="
      [] OTHER -> x

ConfigLines ==
    {<<"[Interface]", "\n">>,
     <<"[interface]", " ", "\n">>,
     <<"[Peer]", "\n">>,
     <<"Address=", "a", "\n">>,
     <<"Address=", "\n">>,
     <<"dns=", " ", "a", "\n">>,
     <<"MTU=", "7", "\n">>,
     <<"Key=", " ", "a", "\n">>,
     <<"\n">>}

ConfigFiles == SeqsUpTo(ConfigLines, MaxLines)

\* The copy of a line without its white space (lines 556-560).
clean_of(line) == SelectSeq(line, LAMBDA x : ~IsSpace(x))

\* Mutant of in_interface_section: a section marker does not end the
\* [Interface] section.
in_interface_section_kept(was, clean) ==
    IF clean # <<>> /\ Lower(clean[1]) = "[interface]" /\ Len(clean) = 1 THEN TRUE
    ELSE was

\* in_interface_section after lines 563-566.
in_interface_section(was, clean) ==
    LET w == IF clean # <<>> /\ clean[1] \in Brackets THEN FALSE ELSE was
    IN  IF clean # <<>> /\ Lower(clean[1]) = "[interface]" /\ Len(clean) = 1 THEN TRUE
        ELSE w

\* !strncasecmp(clean, key, strlen(key)) && len > strlen(key)
KeyWithValue(clean, key) ==
    /\ Len(clean) > 1
    /\ Lower(clean[1]) = key

\* concat_and_free
concat_and_free(orig, delim, new_line) ==
    IF orig = NULL THEN new_line ELSE orig \o delim \o new_line

\* The loop of lines 552-580 from the state d on.
RECURSIVE parse_lines(_, _)
parse_lines(file, d) ==
    IF file = <<>> THEN d
    ELSE LET line == Head(file)
             clean == clean_of(line)
             sect == in_interface_section(d.in_interface_section, clean)
             d1 == [d EXCEPT !.in_interface_section = sect]
         IN  IF sect /\ KeyWithValue(clean, "address=")
             THEN parse_lines(Tail(file),
                    [d1 EXCEPT !.addrs = concat_and_free(@, <<",">>, Tail(clean))])
             ELSE IF sect /\ KeyWithValue(clean, "dns=")
             THEN parse_lines(Tail(file),
                    [d1 EXCEPT !.dnses = concat_and_free(@, <<",">>, Tail(clean))])
             ELSE IF sect /\ KeyWithValue(clean, "mtu=")
             THEN parse_lines(Tail(file), [d1 EXCEPT !.mtu = atoi(Tail(clean))])
             ELSE parse_lines(Tail(file),
                    [d1 EXCEPT !.config = concat_and_free(@, <<>>, line)])

\* parse_options, lines 517-520 and 552-589.
parse_options(file) ==
    parse_lines(file, [in_interface_section |-> FALSE, config |-> NULL,
                       addrs |-> NULL, dnses |-> NULL, mtu |-> 0])

InitParse ==
    /\ proc = [p \in Procs |-> Idle]
    /\ links = {}
    /\ networks = {}
    /\ rules = <<>>
    /\ call \in {[fn |-> "parse_options", file |-> f, done |-> FALSE,
                  config |-> <<>>, addrs |-> <<>>, dnses |-> <<>>, mtu |-> 0] :
                    f \in ConfigFiles}

CallParseOptions ==
    /\ call.fn = "parse_options"
    /\ ~call.done
    /\ LET d == parse_options(call.file)
       IN  call' = [call EXCEPT !.done = TRUE, !.config = d.config,
                                !.addrs = d.addrs, !.dnses = d.dnses,
                                !.mtu = d.mtu]
    /\ UNCHANGED <<proc, env>>

NextParse == CallParseOptions

SpecParse == InitParse /\ [][NextParse]_vars

\* Line i is a section marker, the marker of an [Interface] section.
Marker(f, i) == \E k \in 1..Len(f[i]) :
    /\ f[i][k] \in Brackets
    /\ \A j \in 1..(k - 1) : IsSpace(f[i][j])
IfaceMarker(f, i) ==
    /\ Marker(f, i)
    /\ \A k \in 1..Len(f[i]) : IsSpace(f[i][k]) \/ Lower(f[i][k]) = "[interface]"
    /\ Cardinality({k \in 1..Len(f[i]) : ~IsSpace(f[i][k])}) = 1

\* Line i lies in an [Interface] section; in the one the file begins with.
InInterface(f, i) ==
    \E j \in 1..i : IfaceMarker(f, j) /\ \A k \in (j + 1)..i : ~Marker(f, k)
InLeadingInterface(f, i) ==
    \E j \in 1..i :
        /\ IfaceMarker(f, j)
        /\ \A k \in 1..(j - 1) : ~Marker(f, k)
        /\ \A k \in (j + 1)..i : ~Marker(f, k)

\* The key a line begins with, its value without white space.
KeyOf(f, i) ==
    IF clean_of(f[i]) = <<>> THEN "" ELSE Lower(clean_of(f[i])[1])
ValueOf(f, i) == Tail(clean_of(f[i]))
DescriptorKeys == {"address=", "dns=", "mtu="}

\* The text of the lines outside the set of indexes M, in order.
RECURSIVE BodyWithout(_, _, _)
BodyWithout(f, M, i) ==
    IF i > Len(f) THEN <<>>
    ELSE (IF i \in M THEN <<>> ELSE f[i]) \o BodyWithout(f, M, i + 1)

\* The values of the lines of M that begin with key, joined with commas.
RECURSIVE Joined(_, _, _, _)
Joined(f, M, key, i) ==
    IF i > Len(f) THEN <<>>
    ELSE LET rest == Joined(f, M, key, i + 1)
         IN  IF i \in M /\ KeyOf(f, i) = key
             THEN (IF rest = <<>> THEN ValueOf(f, i)
                   ELSE ValueOf(f, i) \o <<",">> \o rest)
             ELSE rest

\* The lines the claim has merged, and the lines the code merges.
MergedAsStated(f) ==
    {i \in 1..Len(f) : InLeadingInterface(f, i) /\ KeyOf(f, i) \in DescriptorKeys}
MergedWithValue(f) ==
    {i \in 1..Len(f) :
        InInterface(f, i) /\ KeyOf(f, i) \in DescriptorKeys /\ ValueOf(f, i) # <<>>}

\* C19 as stated: the Address=, DNS= and MTU= lines of the leading
\* [Interface] section are merged into the descriptor, and the body is the
\* input without them, in order.
C19_ConfigSplitting ==
    (call.fn = "parse_options" /\ call.done) =>
        LET M == MergedAsStated(call.file)
        IN  /\ call.config = BodyWithout(call.file, M, 1)
            /\ call.addrs = Joined(call.file, M, "address=", 1)
            /\ call.dnses = Joined(call.file, M, "dns=", 1)

\* C19 amended: the lines merged are the Address=, DNS= and MTU= lines
\* with a value of every [Interface] section; the address and DNS values
\* are joined with commas in order, the MTU is the number of the last MTU=
\* line, and the body is the input without the merged lines, in order.
C19_ConfigSplittingWithValue ==
    (call.fn = "parse_options" /\ call.done) =>
        LET M == MergedWithValue(call.file)
            mtus == {i \in M : KeyOf(call.file, i) = "mtu="}
        IN  /\ call.config = BodyWithout(call.file, M, 1)
            /\ call.addrs = Joined(call.file, M, "address=", 1)
            /\ call.dnses = Joined(call.file, M, "dns=", 1)
            /\ call.mtu = IF mtus = {} THEN 0
                          ELSE Decimal(LeadingDigits(ValueOf(call.file,
                                    CHOOSE i \in mtus : \A j \in mtus : j <= i)))

C19_Witness ==
    /\ call.fn = "parse_options"
    /\ call.done
    /\ call.file = <<<<"[Interface]", "\n">>, <<"dns=", " ", "a", "\n">>,
                     <<"Key=", " ", "a", "\n">>>>
    /\ call.dnses = <<"a">>
    /\ call.config = <<"[Interface]", "\n", "Key=", " ", "a", "\n">>

====
